---- MODULE Spec2Model ----
(***************************************************************************)
(* bipolar: the build engine of src/src/build.rs (lockfile compatibility,  *)
(* nuke decision, shard population, treatment assignment and application,  *)
(* hooks, lockfile persistence) as a state machine.  One build invocation  *)
(* is a sequence of steps, one per fallible call of build(); the disk      *)
(* (lockfile.toml, .control, shard_<id>) persists between invocations.     *)
(***************************************************************************)
EXTENDS Integers, Sequences, FiniteSets, TLC

(***************************************************************************)
(* Bounds of the model.                                                    *)
(***************************************************************************)
\* the shard_count of the configurations that are built
MaxShards == 3
\* number of build invocations in one behaviour
MaxBuilds == 3
\* number of invocations that return an error in one behaviour
MaxFailures == 1
\* number of build invocations in one behaviour of the split-only rebuilds
MaxIncrBuilds == 4
\* the longest list of shard ids that shuffled_shards is exercised on
MaxShuffleLen == 5
\* the longest list of shard ids whose count is computed on its own
MaxCountLen == 25
\* iterations of the supervisor's poll loop in one behaviour
MaxPolls == 2
\* termination signals delivered to one supervisor
MaxSignals == 2

(***************************************************************************)
(* Configuration space (config.rs: ExperimentConfig, Assignment, Hooks).   *)
(***************************************************************************)
\* config.treatments, in configuration order (names of the treatments)
Treatments == <<"A", "B">>

Names == {Treatments[i] : i \in 1..Len(Treatments)}

\* StrategyType::Proxy(DefaultStrategy {}) and StrategyType::Random(RandomStrategy { seed })
Proxy == [kind |-> "Proxy"]

Random(seed) == [kind |-> "Random", seed |-> seed]

Seeds == {42}

Strategies == {Proxy} \cup {Random(s) : s \in Seeds}

\* Assignment.split: HashMap<String, u8>, a partial map from names to percentages
SplitMaps ==
    { [n \in {} |-> 0],
      [n \in {"A"} |-> 50],
      [n \in {"A"} |-> 100],
      [n \in {"A", "B"} |-> IF n = "A" THEN 50 ELSE 100],
      [n \in {"A", "B"} |-> 100] }

\* minmax windows [min, max) of the built configurations: the full range and a strict sub-range
Windows == {<<0, MaxShards>>, <<1, MaxShards>>}

\* Hooks.control_build and Hooks.build, templating and symlinks: configured (TRUE) or None
Extras ==
    { [hooks |-> [control_build |-> FALSE, build |-> FALSE], templating |-> FALSE, symlinks |-> FALSE],
      [hooks |-> [control_build |-> TRUE, build |-> TRUE], templating |-> TRUE, symlinks |-> TRUE] }

ExperimentConfig ==
    { [ base |-> "main",
        repo |-> "origin",
        shard_count |-> MaxShards,
        minmax |-> w,
        assignment |-> [split |-> sp, strategy |-> st],
        hooks |-> e.hooks,
        templating |-> e.templating,
        symlinks |-> e.symlinks ] :
      w \in Windows, st \in Strategies, sp \in SplitMaps, e \in Extras }

(***************************************************************************)
(* LockFile (build.rs:14-36).                                              *)
(***************************************************************************)
EmptyMap == [n \in {} |-> <<>>]

\* form_lockfile: the desired lockfile of a configuration, applied empty
form_lockfile(cfg) ==
    [ assignment |-> cfg.assignment,
      base |-> cfg.base,
      repo |-> cfg.repo,
      shard_count |-> cfg.shard_count,
      minmax |-> cfg.minmax,
      applied |-> EmptyMap ]

\* LockFile::eq(&self, lockfile): self is the persisted lockfile, lockfile the desired one
eq(self, lockfile) ==
    /\ self.base = lockfile.base
    /\ self.repo = lockfile.repo
    /\ self.shard_count = lockfile.shard_count
    /\ self.minmax = lockfile.minmax
    /\ \A k \in DOMAIN self.assignment.split :
          IF k \in DOMAIN lockfile.assignment.split
            THEN lockfile.assignment.split[k] >= self.assignment.split[k]
            ELSE FALSE
    /\ IF self.assignment.strategy.kind = "Random" /\ lockfile.assignment.strategy.kind = "Random"
         THEN self.assignment.strategy.seed = lockfile.assignment.strategy.seed
         ELSE FALSE

\* The file lockfile.toml: absent, present but not a parseable LockFile, or a LockFile
Missing == [kind |-> "missing"]

Corrupt == [kind |-> "corrupt"]

Valid(lf) == [kind |-> "valid", doc |-> lf]

\* compare_lockfile that skips the eq check of a parsed lockfile
compare_lockfile_NoEq(file, lockfile) ==
    IF file.kind = "valid" THEN [ok |-> TRUE, value |-> file.doc]
    ELSE [ok |-> FALSE]

\* compare_lockfile: Ok(current_lockfile) when the file opens, parses and eq holds; Err otherwise
compare_lockfile(file, lockfile) ==
    IF file.kind = "missing" THEN [ok |-> FALSE]
    ELSE IF file.kind = "corrupt" THEN [ok |-> FALSE]
    ELSE IF eq(file.doc, lockfile) THEN [ok |-> TRUE, value |-> file.doc]
    ELSE [ok |-> FALSE]

(***************************************************************************)
(* Assignment engine (build.rs:243-266, 346-366).                          *)
(***************************************************************************)
\* the bytes of a treatment name, as hashed by str::hash
NameCode(name) == IF name = "A" THEN 65 ELSE 66

\* DefaultHasher over (seed, treatment_name): a deterministic 16-bit stand-in for SipHash
Hash(seed, name) == (seed * 31 + NameCode(name) * 17 + 5) % 65536

\* ChaCha8Rng::from_seed(seed_bytes): the k-th word of the stream the hash seeds,
\* a deterministic stand-in for the cipher's key stream
ChaChaWord(hash, k) == (((hash % 251) + 1) * (k + 2) * 37 + (hash \div 7) + k * k) % 1009

\* rand's gen_index(rng, ubound): an index below ubound, from the next word of the stream
gen_index(hash, k, ubound) == ChaChaWord(hash, k) % ubound

\* a swap that loses the element at i
swap_Overwrite(ids, i, j) == [p \in 1..Len(ids) |-> IF p = i + 1 THEN ids[j + 1] ELSE ids[p]]

\* slice::swap on 0-based indices i and j
swap(ids, i, j) ==
    [p \in 1..Len(ids) |->
        IF p = i + 1 THEN ids[j + 1]
        ELSE IF p = j + 1 THEN ids[i + 1]
        ELSE ids[p]]

\* SliceRandom::shuffle: for i in (1..len).rev() { swap(i, gen_index(rng, i + 1)) }
RECURSIVE shuffle(_, _, _, _)
shuffle(ids, hash, i, k) ==
    IF i < 1 THEN ids
    ELSE shuffle(swap(ids, i, gen_index(hash, k, i + 1)), hash, i - 1, k + 1)

\* (min..max).collect()
range(min, max) == [p \in 1..(IF max > min THEN max - min ELSE 0) |-> min + p - 1]

shuffled_shards(seed, treatment_name, min, max) ==
    LET shard_ids == range(min, max)
    IN shuffle(shard_ids, Hash(seed, treatment_name), Len(shard_ids) - 1, 0)

\* build.rs:346-351: the ordered shard ids of a treatment under the configured strategy
shard_ids_of(cfg, name) ==
    IF cfg.assignment.strategy.kind = "Random"
      THEN shuffled_shards(cfg.assignment.strategy.seed, name, 0, cfg.shard_count)
      ELSE range(cfg.minmax[1], cfg.minmax[2])

(***************************************************************************)
(* build.rs:361: ((len as f64) * (split as f64 / 100.0)).round() as usize, *)
(* computed as IEEE 754 binary64 computes it.  q = split / 100.0 is the    *)
(* double nearest to split/100 (ties to even): q = M / 2^e with            *)
(* 2^52 <= M < 2^53.  len * q is rounded to a double again and round()     *)
(* takes halves away from zero.  The two roundings matter only when        *)
(* len*split/100 is k + 1/2 exactly: the product is then k + 1/2 only if   *)
(* the error of q, scaled by len, stays within half a unit in the last     *)
(* place below k + 1/2; otherwise it is the double below and rounds to k.  *)
(***************************************************************************)
RECURSIVE Pow2(_)
Pow2(e) == IF e = 0 THEN 1 ELSE 2 * Pow2(e - 1)

RECURSIVE Pow2Mod(_, _)
Pow2Mod(e, m) == IF e = 0 THEN 1 % m ELSE (2 * Pow2Mod(e - 1, m)) % m

\* the binary exponent of num/den > 0: the E with 2^E <= num/den < 2^(E+1)
FloorLog2(num, den) ==
    CHOOSE E \in -10..20 :
        IF E >= 0 THEN Pow2(E) * den <= num /\ num < Pow2(E + 1) * den
                  ELSE Pow2(-E) * num >= den /\ Pow2(-E - 1) * num < den

\* 100 * M - split * 2^e: the error of the quotient split as f64 / 100.0, in units of
\* 1 / (100 * 2^e), from the remainder of split * 2^e by 100 (ties to the even M)
QuotientError(split) ==
    LET e == 52 - FloorLog2(split, 100)
        r == (split * Pow2Mod(e, 200)) % 200
        rem == r % 100
    IN IF rem < 50 THEN -rem
       ELSE IF rem > 50 THEN 100 - rem
       ELSE IF r < 100 THEN -50 ELSE 50

count(len, split) ==
    LET twice == 2 * len * split
        k == (twice - 100) \div 200
        d == QuotientError(split)
        ulps == IF k = 0 THEN 4 ELSE 2
    IN IF twice % 200 # 100 THEN (twice + 100) \div 200
       ELSE IF d >= 0 THEN k + 1
       ELSE IF ulps * len * (-d) > 100 * Pow2(FloorLog2(2 * k + 1, 2) - FloorLog2(split, 100))
              THEN k
              ELSE k + 1

\* Iterator::take(n) and Iterator::skip(n) on a list
take(s, n) == SubSeq(s, 1, IF n < Len(s) THEN n ELSE Len(s))

skip(s, n) == SubSeq(s, n + 1, Len(s))

\* HashMap::insert(name, vec![]): the entry is overwritten when it exists
or_insert_Overwrite(applied, name) ==
    [n \in DOMAIN applied \cup {name} |-> IF n = name THEN <<>> ELSE applied[n]]

\* HashMap::entry(name).or_insert(vec![]) on the applied map
or_insert(applied, name) ==
    IF name \in DOMAIN applied THEN applied
    ELSE [n \in DOMAIN applied \cup {name} |-> IF n = name THEN <<>> ELSE applied[n]]

\* the window test with its lower bound off by one
OutOfWindow_OffByOne(cfg, i) == i <= cfg.minmax[1] \/ i >= cfg.minmax[2]

\* the window test without its lower bound
OutOfWindow_NoLower(cfg, i) == i >= cfg.minmax[2]

\* build.rs:368: the ids the iteration skips
OutOfWindow(cfg, i) == i < cfg.minmax[1] \/ i >= cfg.minmax[2]

(***************************************************************************)
(* External commands (utils.rs:32-58).                                     *)
(***************************************************************************)
\* what the operating system does with one command: the spawn fails, the wait fails,
\* or the child exits with a status
CommandOutcomes ==
    { [spawn |-> FALSE, wait |-> FALSE, status |-> 0],
      [spawn |-> TRUE, wait |-> FALSE, status |-> 0],
      [spawn |-> TRUE, wait |-> TRUE, status |-> 0],
      [spawn |-> TRUE, wait |-> TRUE, status |-> 1] }

\* run_command_string: command.spawn()?; if asynch Ok(child) else { child.wait()?; Ok(child) }
run_command_string(out, asynch) ==
    IF ~out.spawn THEN "Err"
    ELSE IF asynch THEN "Ok"
    ELSE IF ~out.wait THEN "Err"
    ELSE "Ok"

(***************************************************************************)
(* State.                                                                  *)
(***************************************************************************)
VARIABLES
    lockfileDisk,     \* .bipolar/lockfile.toml
    shardDirs,        \* .bipolar/shard_<id>: absent, or the treatments applied since the copy
    controlDir,       \* .bipolar/.control exists
    pc,               \* position of the running build invocation, "idle" between invocations
    config,           \* build's config argument
    nuclear,          \* build's nuclear argument
    nuke,             \* build's local nuke
    lockfile,         \* build's local in-progress lockfile
    storage,          \* populate_shard_repos' map of opened shard repositories (its keys)
    tIdx,             \* index of the treatment of the outer loop
    iter,             \* the remaining ids of take(count).skip(..) for that treatment
    shardIdx,         \* loop variable i of the per-shard loops
    result,           \* what the last invocation returned: "none", "running", "Ok", "Err"
    builds,           \* number of invocations started
    failures,         \* number of invocations that returned an error
    lockAtStart,      \* what compare_lockfile found: "missing", "corrupt", "incompatible", "compatible"
    lockIntact,       \* lockfile.toml has not been changed since the invocation started
    prev,             \* the invocation before this one: whether it returned Ok, its split,
                      \* and whether the rest of its config equals this invocation's
    calls,            \* the (treatment, shard) pairs passed to apply_treatment in this invocation
    failedSinceNuke,  \* some invocation returned Err since the shards were last recreated
    failedAt,         \* the step whose error the invocation returned
    hookStatus,       \* exit status of the hook the last step ran and waited for, -1 otherwise
    hooked,           \* the shard ids whose build hook was spawned in this invocation, in order
    children,         \* run's Vec of spawned child processes
    running,          \* run's AtomicBool, cleared by the termination-signal handler
    handler,          \* the ctrlc handler is installed
    clock,            \* time, in units of the poll interval (100 ms)
    signals,          \* termination signals delivered to the supervisor so far
    polls,            \* sleeps of the poll loop so far
    args,             \* the arguments of a function that is exercised on its own
    rets              \* the values its calls returned, in call order

disk == <<lockfileDisk, shardDirs, controlDir>>

locals == <<config, nuclear, nuke, lockfile, storage, tIdx, iter, shardIdx>>

ghost == <<builds, failures, lockAtStart, lockIntact, prev, calls, failedSinceNuke, failedAt,
           hooked>>

supervisor == <<children, running, handler, clock, signals, polls>>

pure == <<args, rets>>

vars == <<disk, pc, locals, result, ghost, hookStatus, supervisor, pure>>

ShardIds == 0..(MaxShards - 1)

Absent == [exists |-> FALSE, whole |-> FALSE, log |-> <<>>]

\* a complete copy of the control working copy
Fresh == [exists |-> TRUE, whole |-> TRUE, log |-> <<>>]

\* what copy_dir_recursive leaves when it fails after create_dir_all (utils.rs:11-27)
Partial == [exists |-> TRUE, whole |-> FALSE, log |-> <<>>]

InitConfig == CHOOSE c \in ExperimentConfig : TRUE

NoPrev == [ok |-> FALSE, split |-> [n \in {} |-> 0], sameRest |-> FALSE]

\* a config without its assignment.split
Rest(cfg) == [cfg EXCEPT !.assignment.split = [n \in {} |-> 0]]

\* no function is exercised on its own
NoCall ==
    /\ args = <<>>
    /\ rets = <<>>

\* no bipolar run has been started
NoSupervisor ==
    /\ children = <<>>
    /\ running = TRUE
    /\ handler = FALSE
    /\ clock = 0
    /\ signals = 0
    /\ polls = 0

\* an empty build directory and no build invocation
NoBuild ==
    /\ lockfileDisk = Missing
    /\ shardDirs = [i \in ShardIds |-> Absent]
    /\ controlDir = FALSE
    /\ pc = "idle"
    /\ config = InitConfig
    /\ nuclear = FALSE
    /\ nuke = FALSE
    /\ lockfile = form_lockfile(InitConfig)
    /\ storage = {}
    /\ tIdx = 1
    /\ iter = <<>>
    /\ shardIdx = 0
    /\ result = "none"
    /\ builds = 0
    /\ failures = 0
    /\ lockAtStart = "missing"
    /\ lockIntact = TRUE
    /\ prev = NoPrev
    /\ calls = <<>>
    /\ failedSinceNuke = FALSE
    /\ failedAt = "none"
    /\ hookStatus = -1
    /\ hooked = <<>>

Init == NoBuild /\ NoSupervisor /\ NoCall

(***************************************************************************)
(* build (build.rs:318-422), one action per fallible step.                 *)
(***************************************************************************)
\* an error that is recorded but not propagated: the invocation carries on
Fail_Swallowed(step) ==
    /\ failures < MaxFailures
    /\ pc' = pc
    /\ result' = result
    /\ failedAt' = step
    /\ failedSinceNuke' = TRUE
    /\ failures' = failures + 1

\* the ? operator: the invocation returns the error of the step
Fail(step) ==
    /\ failures < MaxFailures
    /\ pc' = "returned"
    /\ result' = "Err"
    /\ failedAt' = step
    /\ failedSinceNuke' = TRUE
    /\ failures' = failures + 1

\* build.rs:319-328: form the desired lockfile, compare it with the persisted one, decide nuke
BuildStart(cfg, nuc) ==
    /\ pc = "idle"
    /\ LET desired == form_lockfile(cfg)
           cmp == compare_lockfile(lockfileDisk, desired)
       IN /\ lockfile' = (IF cmp.ok THEN cmp.value ELSE desired)
          /\ nuke' = (IF cmp.ok THEN nuc ELSE TRUE)
          /\ pc' = (IF (IF cmp.ok THEN nuc ELSE TRUE) THEN "remove_dir" ELSE "populate")
          /\ lockAtStart' = (IF lockfileDisk.kind # "valid" THEN lockfileDisk.kind
                             ELSE IF eq(lockfileDisk.doc, desired) THEN "compatible"
                             ELSE "incompatible")
    /\ config' = cfg
    /\ nuclear' = nuc
    /\ storage' = {}
    /\ tIdx' = 1
    /\ iter' = <<>>
    /\ shardIdx' = cfg.minmax[1]
    /\ result' = "running"
    /\ builds' = builds + 1
    /\ lockIntact' = TRUE
    /\ prev' = [ok |-> result = "Ok", split |-> config.assignment.split,
                sameRest |-> Rest(config) = Rest(cfg)]
    /\ calls' = <<>>
    /\ hooked' = <<>>
    /\ failedAt' = "none"
    /\ hookStatus' = -1
    /\ UNCHANGED <<disk, failedSinceNuke, failures>>
    /\ UNCHANGED <<supervisor, pure>>

\* build.rs:333: std::fs::remove_dir_all(&path)?
RemoveBuildDir ==
    /\ pc = "remove_dir"
    /\ \/ /\ lockfileDisk' = Missing
          /\ shardDirs' = [i \in ShardIds |-> Absent]
          /\ controlDir' = FALSE
          /\ pc' = "clone"
          /\ failedSinceNuke' = FALSE
          /\ lockIntact' = (lockIntact /\ lockfileDisk = Missing)
          /\ UNCHANGED <<result, failedAt, failures>>
       \/ /\ Fail("remove_dir")
          /\ UNCHANGED <<disk, lockIntact>>
    /\ UNCHANGED <<locals, builds, lockAtStart, prev, calls, hooked>>
    /\ hookStatus' = -1
    /\ UNCHANGED <<supervisor, pure>>

\* clone_control_repo up to the control-build hook (build.rs:121-137)
CloneControl ==
    /\ pc = "clone"
    /\ \/ /\ controlDir' = TRUE
          /\ pc' = (IF config.hooks.control_build THEN "control_build" ELSE "populate")
          /\ UNCHANGED <<result, failedAt, failedSinceNuke, failures>>
       \/ /\ Fail("clone")
          /\ UNCHANGED controlDir
    /\ UNCHANGED <<lockfileDisk, shardDirs, locals, builds, lockAtStart, lockIntact, prev, calls, hooked>>
    /\ hookStatus' = -1
    /\ UNCHANGED <<supervisor, pure>>

\* clone_control_repo's control-build hook (build.rs:139-146)
ControlBuildHook ==
    /\ pc = "control_build"
    /\ \E out \in CommandOutcomes :
          IF run_command_string(out, FALSE) = "Err"
            THEN /\ Fail("control_build")
                 /\ hookStatus' = -1
            ELSE /\ pc' = "populate"
                 /\ hookStatus' = out.status
                 /\ UNCHANGED <<result, failedAt, failedSinceNuke, failures>>
    /\ UNCHANGED <<disk, locals, builds, lockAtStart, lockIntact, prev, calls, hooked>>
    /\ UNCHANGED <<supervisor, pure>>

\* a populate step that copies control over the shard directory whether or not it exists
ensure_shard_AlwaysCopy(dir) == Fresh

\* build.rs:111-113: copy control into the shard directory only if it does not exist
ensure_shard(dir) == IF dir.exists THEN dir ELSE Fresh

\* populate_shard_repos, one iteration of its loop (build.rs:109-116)
PopulateShard ==
    /\ pc = "populate"
    /\ shardIdx < config.minmax[2]
    /\ \/ \* the copy (when the directory does not exist) and Repository::open succeed
          /\ shardDirs[shardIdx].exists \/ controlDir
          /\ shardDirs' = [shardDirs EXCEPT ![shardIdx] = ensure_shard(@)]
          /\ storage' = storage \cup {shardIdx}
          /\ shardIdx' = shardIdx + 1
          /\ UNCHANGED <<pc, result, failedAt, failedSinceNuke, failures>>
       \/ \* copy_dir_recursive fails, before or after it created the directory
          /\ ~shardDirs[shardIdx].exists
          /\ \E left \in {Absent, Partial} :
                shardDirs' = [shardDirs EXCEPT ![shardIdx] = left]
          /\ Fail("shard_copy")
          /\ UNCHANGED <<storage, shardIdx>>
       \/ \* Repository::open fails
          /\ shardDirs[shardIdx].exists \/ controlDir
          /\ shardDirs' = [shardDirs EXCEPT ![shardIdx] = ensure_shard(@)]
          /\ Fail("shard_open")
          /\ UNCHANGED <<storage, shardIdx>>
    /\ UNCHANGED <<lockfileDisk, controlDir, config, nuclear, nuke, lockfile, tIdx, iter,
                   builds, lockAtStart, lockIntact, prev, calls, hooked>>
    /\ hookStatus' = -1
    /\ UNCHANGED <<supervisor, pure>>

\* populate_shard_repos returns the storage (build.rs:118, 337)
PopulateDone ==
    /\ pc = "populate"
    /\ shardIdx >= config.minmax[2]
    /\ pc' = "treatment"
    /\ tIdx' = 1
    /\ UNCHANGED <<disk, config, nuclear, nuke, lockfile, storage, iter, shardIdx, result, ghost>>
    /\ hookStatus' = -1
    /\ UNCHANGED <<supervisor, pure>>

\* build.rs:339-366: the head of the treatment loop, up to the iterator of due shard ids
TreatmentBegin ==
    /\ pc = "treatment"
    /\ tIdx <= Len(Treatments)
    /\ LET name == Treatments[tIdx] IN
          IF name \notin DOMAIN config.assignment.split
            THEN \* no split for the treatment: continue
                 /\ tIdx' = tIdx + 1
                 /\ UNCHANGED <<pc, lockfile, iter>>
            ELSE LET shard_ids == shard_ids_of(config, name)
                     split == config.assignment.split[name]
                     cnt == count(Len(shard_ids), split)
                     applied == or_insert(lockfile.applied, name)
                 IN /\ lockfile' = [lockfile EXCEPT !.applied = applied]
                    /\ iter' = skip(take(shard_ids, cnt), Len(applied[name]))
                    /\ pc' = "apply"
                    /\ UNCHANGED tIdx
    /\ UNCHANGED <<disk, config, nuclear, nuke, storage, shardIdx, result, ghost>>
    /\ hookStatus' = -1
    /\ UNCHANGED <<supervisor, pure>>

\* build.rs:367-378: one iteration over the due shard ids of the treatment
ApplyStep ==
    /\ pc = "apply"
    /\ iter # <<>>
    /\ LET name == Treatments[tIdx]
           i == Head(iter)
       IN IF OutOfWindow(config, i)
            THEN /\ iter' = Tail(iter)
                 /\ UNCHANGED <<shardDirs, lockfile, calls, pc, result, failedAt, failedSinceNuke, failures>>
            ELSE \/ \* apply_treatment returns Ok
                    /\ shardDirs' = [shardDirs EXCEPT ![i].log = Append(@, name)]
                    /\ lockfile' = [lockfile EXCEPT !.applied[name] = Append(@, i)]
                    /\ calls' = Append(calls, <<name, i>>)
                    /\ iter' = Tail(iter)
                    /\ UNCHANGED <<pc, result, failedAt, failedSinceNuke, failures>>
                 \/ \* apply_treatment returns Err
                    /\ calls' = Append(calls, <<name, i>>)
                    /\ Fail("apply_treatment")
                    /\ UNCHANGED <<shardDirs, lockfile, iter>>
    /\ UNCHANGED <<lockfileDisk, controlDir, config, nuclear, nuke, storage, tIdx, shardIdx,
                   builds, lockAtStart, lockIntact, prev, hooked>>
    /\ hookStatus' = -1
    /\ UNCHANGED <<supervisor, pure>>

\* the inner loop is exhausted: next treatment
ApplyDone ==
    /\ pc = "apply"
    /\ iter = <<>>
    /\ pc' = "treatment"
    /\ tIdx' = tIdx + 1
    /\ UNCHANGED <<disk, config, nuclear, nuke, lockfile, storage, iter, shardIdx, result, ghost>>
    /\ hookStatus' = -1
    /\ UNCHANGED <<supervisor, pure>>

\* a per-shard loop that starts at shard 0 instead of the window's lower end
first_hooked_Zero(cfg) == 0

\* build.rs:382: the per-shard loop starts at config.minmax.0
first_hooked(cfg) == cfg.minmax[1]

\* build.rs:381-382, 412-414: after the last treatment, the per-shard loop or straight to the write
TreatmentsDone ==
    /\ pc = "treatment"
    /\ tIdx > Len(Treatments)
    /\ IF config.hooks.build \/ config.templating \/ config.symlinks
         THEN pc' = "build_hook" /\ shardIdx' = first_hooked(config)
         ELSE pc' = "write" /\ UNCHANGED shardIdx
    /\ UNCHANGED <<disk, config, nuclear, nuke, lockfile, storage, tIdx, iter, result, ghost>>
    /\ hookStatus' = -1
    /\ UNCHANGED <<supervisor, pure>>

\* build.rs:385-392: the build hook of shard i
BuildHook ==
    /\ pc = "build_hook"
    /\ shardIdx < config.minmax[2]
    /\ IF config.hooks.build
         THEN \E out \in CommandOutcomes :
                 /\ hooked' = (IF out.spawn THEN Append(hooked, shardIdx) ELSE hooked)
                 /\ IF run_command_string(out, FALSE) = "Err"
                      THEN /\ Fail("build_hook")
                           /\ hookStatus' = -1
                      ELSE /\ pc' = "template"
                           /\ hookStatus' = out.status
                           /\ UNCHANGED <<result, failedAt, failedSinceNuke, failures>>
         ELSE /\ pc' = "template"
              /\ hookStatus' = -1
              /\ UNCHANGED <<hooked, result, failedAt, failedSinceNuke, failures>>
    /\ UNCHANGED <<disk, locals, builds, lockAtStart, lockIntact, prev, calls>>
    /\ UNCHANGED <<supervisor, pure>>

\* build.rs:394-397: template_fill of shard i
TemplateFill ==
    /\ pc = "template"
    /\ IF config.templating
         THEN \/ /\ pc' = "symlink"
                 /\ UNCHANGED <<result, failedAt, failedSinceNuke, failures>>
              \/ Fail("template")
         ELSE /\ pc' = "symlink"
              /\ UNCHANGED <<result, failedAt, failedSinceNuke, failures>>
    /\ UNCHANGED <<disk, locals, builds, lockAtStart, lockIntact, prev, calls, hooked>>
    /\ hookStatus' = -1
    /\ UNCHANGED <<supervisor, pure>>

\* build.rs:399-410: the symlinks of shard i, then the next shard
Symlinks ==
    /\ pc = "symlink"
    /\ IF config.symlinks
         THEN \/ /\ pc' = "build_hook"
                 /\ shardIdx' = shardIdx + 1
                 /\ UNCHANGED <<result, failedAt, failedSinceNuke, failures>>
              \/ /\ Fail("symlink")
                 /\ UNCHANGED shardIdx
         ELSE /\ pc' = "build_hook"
              /\ shardIdx' = shardIdx + 1
              /\ UNCHANGED <<result, failedAt, failedSinceNuke, failures>>
    /\ UNCHANGED <<disk, config, nuclear, nuke, lockfile, storage, tIdx, iter,
                   builds, lockAtStart, lockIntact, prev, calls, hooked>>
    /\ hookStatus' = -1
    /\ UNCHANGED <<supervisor, pure>>

\* the per-shard loop is exhausted
ShardLoopDone ==
    /\ pc = "build_hook"
    /\ shardIdx >= config.minmax[2]
    /\ pc' = "write"
    /\ UNCHANGED <<disk, locals, result, ghost>>
    /\ hookStatus' = -1
    /\ UNCHANGED <<supervisor, pure>>

\* write_lockfile (build.rs:84-94): File::create truncates the file, write_all fills it
write_lockfile(lf, outcome) ==
    IF outcome = "create_err" THEN [file |-> lockfileDisk, ret |-> "Err"]
    ELSE IF outcome = "write_err" THEN [file |-> Corrupt, ret |-> "Err"]
    ELSE [file |-> Valid(lf), ret |-> "Ok"]

\* build.rs:416-421: write the lockfile and return
WriteLockfile ==
    /\ pc = "write"
    /\ \E outcome \in {"create_err", "write_err", "ok"} :
          LET w == write_lockfile(lockfile, outcome) IN
          /\ lockfileDisk' = w.file
          /\ lockIntact' = (lockIntact /\ w.file = lockfileDisk)
          /\ IF w.ret = "Err"
               THEN Fail("write_lockfile")
               ELSE /\ pc' = "returned"
                    /\ result' = "Ok"
                    /\ UNCHANGED <<failedAt, failedSinceNuke, failures>>
    /\ UNCHANGED <<shardDirs, controlDir, locals, builds, lockAtStart, prev, calls, hooked>>
    /\ hookStatus' = -1
    /\ UNCHANGED <<supervisor, pure>>

\* main.rs:47-53: build has returned and the process exits; only the disk and, for the
\* next invocation's record of its predecessor, the config and the result are kept
Return ==
    /\ pc = "returned"
    /\ pc' = "idle"
    /\ nuclear' = FALSE
    /\ nuke' = FALSE
    /\ lockfile' = form_lockfile(InitConfig)
    /\ storage' = {}
    /\ tIdx' = 1
    /\ iter' = <<>>
    /\ shardIdx' = 0
    /\ lockAtStart' = "missing"
    /\ lockIntact' = TRUE
    /\ prev' = NoPrev
    /\ calls' = <<>>
    /\ hooked' = <<>>
    /\ failedAt' = "none"
    /\ hookStatus' = -1
    /\ UNCHANGED <<disk, config, result, builds, failures, failedSinceNuke>>
    /\ UNCHANGED <<supervisor, pure>>

Steps ==
    \/ RemoveBuildDir
    \/ CloneControl
    \/ ControlBuildHook
    \/ PopulateShard
    \/ PopulateDone
    \/ TreatmentBegin
    \/ ApplyStep
    \/ ApplyDone
    \/ TreatmentsDone
    \/ BuildHook
    \/ TemplateFill
    \/ Symlinks
    \/ ShardLoopDone
    \/ WriteLockfile
    \/ Return

\* bipolar build [--nuclear], invoked with any configuration of the configuration space
Invoke ==
    /\ builds < MaxBuilds
    /\ \E cfg \in ExperimentConfig, nuc \in BOOLEAN : BuildStart(cfg, nuc)

Next == Invoke \/ Steps

Spec == Init /\ [][Next]_vars

(***************************************************************************)
(* Longer runs of rebuilds that only change the split of treatment A       *)
(* (Random strategy, full window).                                         *)
(***************************************************************************)
IncrConfigs ==
    { c \in ExperimentConfig :
        /\ c.minmax = <<0, MaxShards>>
        /\ c.assignment.strategy.kind = "Random"
        /\ DOMAIN c.assignment.split \subseteq {"A"} }

InvokeIncr ==
    /\ builds < MaxIncrBuilds
    /\ \E cfg \in IncrConfigs, nuc \in BOOLEAN : BuildStart(cfg, nuc)

NextIncr == InvokeIncr \/ Steps

SpecIncr == Init /\ [][NextIncr]_vars

(***************************************************************************)
(* LockFile::eq on its own: every pair (persisted, desired) of a bounded   *)
(* set of lockfiles is compared once.                                      *)
(***************************************************************************)
EqSplitMaps ==
    { [n \in {} |-> 0],
      [n \in {"A"} |-> 30],
      [n \in {"A"} |-> 60],
      [n \in {"B"} |-> 30],
      [n \in {"A", "B"} |-> 30],
      [n \in {"A", "B"} |-> IF n = "A" THEN 60 ELSE 30] }

EqLockFiles ==
    [ assignment : [split : EqSplitMaps, strategy : {Proxy, Random(1), Random(42)}],
      base : {"main", "dev"},
      repo : {"origin", "fork"},
      shard_count : {2, 3},
      minmax : {<<0, 2>>, <<1, 2>>},
      applied : {EmptyMap} ]

InitEq ==
    /\ lockfileDisk \in {Valid(p) : p \in EqLockFiles}
    /\ lockfile \in EqLockFiles
    /\ shardDirs = [i \in ShardIds |-> Absent]
    /\ controlDir = FALSE
    /\ pc = "idle"
    /\ config = InitConfig
    /\ nuclear = FALSE
    /\ nuke = FALSE
    /\ storage = {}
    /\ tIdx = 1
    /\ iter = <<>>
    /\ shardIdx = 0
    /\ result = "none"
    /\ builds = 0
    /\ failures = 0
    /\ lockAtStart = "missing"
    /\ lockIntact = TRUE
    /\ prev = NoPrev
    /\ calls = <<>>
    /\ failedSinceNuke = FALSE
    /\ failedAt = "none"
    /\ hookStatus = -1
    /\ hooked = <<>>
    /\ NoSupervisor
    /\ NoCall

\* compare_lockfile's call current_lockfile.eq(lockfile) (build.rs:66), its answer left in result
EqCall ==
    /\ pc = "idle"
    /\ pc' = "compared"
    /\ result' = (IF eq(lockfileDisk.doc, lockfile) THEN "Ok" ELSE "Err")
    /\ UNCHANGED <<disk, locals, ghost, hookStatus>>
    /\ UNCHANGED <<supervisor, pure>>

NextEq == EqCall

SpecEq == InitEq /\ [][NextEq]_vars

(***************************************************************************)
(* run (runner.rs:4-50): the supervisor of the per-shard run processes.    *)
(* Time is counted in units of the poll interval.                          *)
(***************************************************************************)
\* runner.rs:40: Duration::from_millis(100)
PollInterval == 1

\* runner.rs:26: Duration::from_millis(500)
SpawnDelay == 5

RunConfigs ==
    { [minmax |-> w, shard_count |-> MaxShards, hooks |-> [run |-> h]] :
        w \in Windows, h \in BOOLEAN }

\* build.rs:96-101: the directory of a shard
get_shard_dir(shard) == <<"shard", shard>>

\* a sleep that returns at once
sleep_None(t, d) == {t}

\* thread::sleep(d) started at t: the times at which it may return, not before t + d
sleep(t, d) == {t + d, t + d + 1}

\* a load that never sees the store of the handler
load_Stale(flag) == TRUE

\* runner.rs:39: running.load(Ordering::SeqCst)
load(flag) == flag

\* an error of kill that is dropped instead of unwrapped
unwrap_Ignored(res) == "go_on"

\* runner.rs:46: Result::unwrap
unwrap(res) == IF res = "Ok" THEN "go_on" ELSE "panic"

\* utils.rs:51-57: the Child as run_command_string hands it back
Child(shard, out, asynch, t) ==
    [shard |-> shard, cwd |-> get_shard_dir(shard), at |-> t,
     waited |-> (out.wait /\ ~asynch), alive |-> TRUE, kills |-> 0, killed |-> FALSE]

\* the main thread of the supervisor is in run
InRun == pc \in {"spawn", "spawn_sleep", "install", "poll", "poll_sleep", "kill"}

\* the index in children of the next child of the kill loop
NextToKill == Cardinality({k \in 1..Len(children) : children[k].kills > 0}) + 1

InitRun ==
    /\ lockfileDisk = Missing
    /\ shardDirs \in [ShardIds -> {Fresh, Absent}]
    /\ controlDir = TRUE
    /\ pc = "idle"
    /\ config \in RunConfigs
    /\ nuclear = FALSE
    /\ nuke = FALSE
    /\ lockfile = form_lockfile(InitConfig)
    /\ storage = {}
    /\ tIdx = 1
    /\ iter = <<>>
    /\ shardIdx = 0
    /\ result = "none"
    /\ builds = 0
    /\ failures = 0
    /\ lockAtStart = "missing"
    /\ lockIntact = TRUE
    /\ prev = NoPrev
    /\ calls = <<>>
    /\ failedSinceNuke = FALSE
    /\ failedAt = "none"
    /\ hookStatus = -1
    /\ hooked = <<>>
    /\ NoSupervisor
    /\ NoCall

build_state == <<disk, locals, ghost, hookStatus, pure>>

\* runner.rs:5-15: no run hook is an error; otherwise the spawn loop starts at min
RunStart ==
    /\ pc = "idle"
    /\ IF ~config.hooks.run
         THEN pc' = "returned" /\ result' = "Err"
         ELSE pc' = "spawn" /\ result' = "running"
    /\ shardIdx' = config.minmax[1]
    /\ UNCHANGED <<lockfileDisk, shardDirs, controlDir, config, nuclear, nuke, lockfile, storage,
                   tIdx, iter, ghost, hookStatus, pure, supervisor>>

\* runner.rs:17-24: get_shard_dir(shard)?, run_command_string(hook, shard_dir, true)?, push
Spawn ==
    /\ pc = "spawn"
    /\ shardIdx < config.minmax[2]
    /\ \/ \* get_shard_dir fails
          /\ pc' = "returned" /\ result' = "Err"
          /\ failedAt' = "shard_dir"
          /\ UNCHANGED children
       \/ \E out \in CommandOutcomes :
             /\ out.spawn => shardDirs[shardIdx].exists
             /\ IF run_command_string(out, TRUE) = "Err"
                  THEN /\ pc' = "returned" /\ result' = "Err"
                       /\ failedAt' = "spawn"
                       /\ UNCHANGED children
                  ELSE /\ children' = Append(children, Child(shardIdx, out, TRUE, clock))
                       /\ pc' = "spawn_sleep"
                       /\ UNCHANGED <<result, failedAt>>
    /\ UNCHANGED <<disk, locals, builds, failures, lockAtStart, lockIntact, prev, calls,
                   failedSinceNuke, hooked, hookStatus, pure>>
    /\ UNCHANGED <<running, handler, clock, signals, polls>>

\* runner.rs:26: thread::sleep(500 ms), then the next shard
SpawnSleep ==
    /\ pc = "spawn_sleep"
    /\ clock' \in sleep(clock, SpawnDelay)
    /\ pc' = "spawn"
    /\ shardIdx' = shardIdx + 1
    /\ UNCHANGED <<lockfileDisk, shardDirs, controlDir, config, nuclear, nuke, lockfile, storage,
                   tIdx, iter, ghost, hookStatus, pure, result>>
    /\ UNCHANGED <<children, running, handler, signals, polls>>

\* runner.rs:28-30: the spawn loop is exhausted, the flag is created
SpawnDone ==
    /\ pc = "spawn"
    /\ shardIdx >= config.minmax[2]
    /\ pc' = "install"
    /\ running' = TRUE
    /\ UNCHANGED <<build_state, result, children, handler, clock, signals, polls>>

\* runner.rs:35-37: ctrlc::set_handler(..).unwrap()
InstallHandler ==
    /\ pc = "install"
    /\ \/ /\ handler' = TRUE
          /\ pc' = "poll"
          /\ UNCHANGED result
       \/ /\ pc' = "panicked"
          /\ result' = "panic"
          /\ UNCHANGED handler
    /\ UNCHANGED <<build_state, children, running, clock, signals, polls>>

\* runner.rs:39: the condition of the poll loop
Poll ==
    /\ pc = "poll"
    /\ IF load(running)
         THEN polls < MaxPolls /\ pc' = "poll_sleep"
         ELSE pc' = "kill"
    /\ UNCHANGED <<build_state, result, supervisor>>

\* runner.rs:40: thread::sleep(100 ms)
PollSleep ==
    /\ pc = "poll_sleep"
    /\ clock' \in sleep(clock, PollInterval)
    /\ polls' = polls + 1
    /\ pc' = "poll"
    /\ UNCHANGED <<build_state, result, children, running, handler, signals>>

\* runner.rs:45-47: child.kill().unwrap() on the next child
Kill ==
    /\ pc = "kill"
    /\ NextToKill <= Len(children)
    /\ \E res \in {"Ok", "Err"} :
          /\ children' = [children EXCEPT ![NextToKill] =
                             [@ EXCEPT !.kills = @ + 1,
                                       !.killed = (res = "Ok"),
                                       !.alive = IF res = "Ok" THEN FALSE ELSE @]]
          /\ IF unwrap(res) = "panic"
               THEN pc' = "panicked" /\ result' = "panic"
               ELSE UNCHANGED <<pc, result>>
    /\ UNCHANGED <<build_state, running, handler, clock, signals, polls>>

\* runner.rs:49: Ok(())
RunReturn ==
    /\ pc = "kill"
    /\ NextToKill > Len(children)
    /\ pc' = "returned"
    /\ result' = "Ok"
    /\ UNCHANGED <<build_state, supervisor>>

\* a termination signal reaches the supervisor: the handler of runner.rs:35-37 clears the
\* flag; without a handler the signal has the disposition the process inherited, which
\* ends the process (the default) or ignores the signal
Signal ==
    /\ InRun
    /\ signals < MaxSignals
    /\ signals' = signals + 1
    /\ IF handler
         THEN running' = FALSE /\ UNCHANGED <<pc, result>>
         ELSE \/ pc' = "terminated" /\ result' = "signal" /\ UNCHANGED running
              \/ UNCHANGED <<pc, result, running>>
    /\ UNCHANGED <<build_state, children, handler, clock, polls>>

\* a child process exits on its own
ChildExit ==
    /\ InRun
    /\ \E k \in 1..Len(children) :
          /\ children[k].alive
          /\ children' = [children EXCEPT ![k].alive = FALSE]
    /\ UNCHANGED <<build_state, pc, result, running, handler, clock, signals, polls>>

\* the steps of the main thread once the handler is installed
Supervise == Poll \/ PollSleep \/ Kill \/ RunReturn

NextRun ==
    \/ RunStart
    \/ Spawn
    \/ SpawnSleep
    \/ SpawnDone
    \/ InstallHandler
    \/ Poll
    \/ PollSleep
    \/ Kill
    \/ RunReturn
    \/ Signal
    \/ ChildExit

SpecRun == InitRun /\ [][NextRun]_vars

\* the main thread keeps running: thread::sleep returns, and the loop and the kills go on
SpecRunLive == SpecRun /\ WF_vars(Supervise)

(***************************************************************************)
(* shuffled_shards on its own: for every (seed, treatment name, n) of a    *)
(* bounded set it is called twice, as two builds of one configuration do.  *)
(***************************************************************************)
ShuffleSeeds == {0, 1, 7, 42}

InitShuffle ==
    /\ NoBuild
    /\ NoSupervisor
    /\ args \in ShuffleSeeds \X Names \X (0..MaxShuffleLen)
    /\ rets = <<>>

\* build.rs:348: shuffled_shards(&random.seed, name, 0, config.shard_count)
ShuffleCall ==
    /\ Len(rets) < 2
    /\ rets' = Append(rets, shuffled_shards(args[1], args[2], 0, args[3]))
    /\ UNCHANGED <<disk, pc, locals, result, ghost, hookStatus, supervisor, args>>

NextShuffle == ShuffleCall

SpecShuffle == InitShuffle /\ [][NextShuffle]_vars

(***************************************************************************)
(* The count of build.rs:361 on its own, for every list length up to       *)
(* MaxCountLen and every split percentage of 0..100.                       *)
(***************************************************************************)
Percentages == 0..100

InitCount ==
    /\ NoBuild
    /\ NoSupervisor
    /\ args \in (0..MaxCountLen) \X Percentages
    /\ rets = <<>>

\* build.rs:361 with shard_ids.len() = args[1] and split = args[2]
CountCall ==
    /\ rets = <<>>
    /\ rets' = <<count(args[1], args[2])>>
    /\ UNCHANGED <<disk, pc, locals, result, ghost, hookStatus, supervisor, args>>

NextCount == CountCall

SpecCount == InitCount /\ [][NextCount]_vars
(***************************************************************************)
(* Vocabulary of the properties.                                           *)
(***************************************************************************)
\* round(n * p / 100) denotes the count expression of build (build.rs:361), a binary64
\* computation; its numeric value is examined separately
Round(n, p) == count(n, p)

IsPrefix(s, t) == Len(s) <= Len(t) /\ SubSeq(t, 1, Len(s)) = s

\* how often x occurs in the sequence s
Occurrences(s, x) == Cardinality({k \in 1..Len(s) : s[k] = x})

\* the shard ids passed to apply_treatment for a treatment in this invocation, in call order
RECURSIVE CallsFor(_, _)
CallsFor(cs, name) ==
    IF cs = <<>> THEN <<>>
    ELSE IF Head(cs)[1] = name THEN <<Head(cs)[2]>> \o CallsFor(Tail(cs), name)
    ELSE CallsFor(Tail(cs), name)

Succeeded == pc = "returned" /\ result = "Ok"

Failed == pc = "returned" /\ result = "Err"

IsRandom(cfg) == cfg.assignment.strategy.kind = "Random"

FullWindow(cfg) == cfg.minmax = <<0, cfg.shard_count>>

\* the ordering of a treatment over the full range [0, shard_count)
Ordering(cfg, name) == shuffled_shards(cfg.assignment.strategy.seed, name, 0, cfg.shard_count)

\* the ids at the 0-based positions [from, to) of an ordering
Positions(order, from, to) == SubSeq(order, from + 1, IF to < Len(order) THEN to ELSE Len(order))

\* the desired split is lower than the preceding one for some treatment, or omits it
Lowered(before, now) ==
    \E n \in DOMAIN before : n \notin DOMAIN now \/ now[n] < before[n]

(***************************************************************************)
(* C1: over successful builds with no nuke between them, no (treatment,    *)
(* shard) pair is passed to apply_treatment more than once, for every      *)
(* minmax window; a rebuild with an unchanged config applies nothing.      *)
(* (Every shard is recreated by a nuke, so its log holds the applications  *)
(* since the last nuke.)                                                   *)
(***************************************************************************)
C1_NoPairAppliedTwice ==
    (Succeeded /\ ~failedSinceNuke) =>
        /\ \A i \in ShardIds : \A n \in Names : Occurrences(shardDirs[i].log, n) <= 1
        /\ (prev.ok /\ prev.sameRest /\ prev.split = config.assignment.split /\ ~nuke)
              => calls = <<>>

(***************************************************************************)
(* C2: whenever a build nukes (lockfile missing, unparseable, incompatible *)
(* or nuclear = true with a compatible lockfile), the in-progress lockfile *)
(* enters treatment processing with an empty applied map.                  *)
(***************************************************************************)
C2_NukeStartsWithEmptyApplied ==
    (nuke /\ pc \in {"remove_dir", "clone", "control_build", "populate"})
        => lockfile.applied = EmptyMap

(***************************************************************************)
(* C3: a successful build whose desired split lowers or omits a split of   *)
(* the immediately preceding successful build is incompatible and nukes.   *)
(***************************************************************************)
C3_LoweredSplitNukes ==
    (Succeeded /\ prev.ok /\ Lowered(prev.split, config.assignment.split)) => nuke

(***************************************************************************)
(* C4: LockFile::eq(persisted, desired) is true iff base, repo,            *)
(* shard_count and minmax are equal, the strategy seed matches (the two    *)
(* strategies are the same variant with the same seed), and every name of  *)
(* persisted.split is in desired.split with a value at least as large.     *)
(***************************************************************************)
C4_EqIffCompatible ==
    pc = "compared" =>
        LET persisted == lockfileDisk.doc
            desired == lockfile
        IN (result = "Ok") <=>
              /\ persisted.base = desired.base
              /\ persisted.repo = desired.repo
              /\ persisted.shard_count = desired.shard_count
              /\ persisted.minmax = desired.minmax
              /\ persisted.assignment.strategy = desired.assignment.strategy
              /\ \A n \in DOMAIN persisted.assignment.split :
                    /\ n \in DOMAIN desired.assignment.split
                    /\ desired.assignment.split[n] >= persisted.assignment.split[n]

(***************************************************************************)
(* C5: a build that ends with an error at the control clone, control-build *)
(* hook, shard copy, treatment application, build hook, templating or      *)
(* symlink step leaves lockfile.toml as it was before the invocation.      *)
(***************************************************************************)
C5_ErrorLeavesLockfile ==
    (Failed /\ failedAt \in {"clone", "control_build", "shard_copy", "apply_treatment",
                             "build_hook", "template", "symlink"})
        => lockIntact

(***************************************************************************)
(* C6: Random strategy, full window: a successful build with split p1 for  *)
(* a treatment followed by a successful build of the same config except    *)
(* split p2 >= p1 does not nuke and applies the treatment to exactly the   *)
(* ids at positions [round(n*p1/100), round(n*p2/100)) of its ordering.    *)
(***************************************************************************)
C6_RaisedSplitAppliesDelta ==
    \A t \in Names :
        (/\ Succeeded /\ prev.ok /\ prev.sameRest /\ ~nuclear
         /\ IsRandom(config) /\ FullWindow(config)
         /\ DOMAIN prev.split = DOMAIN config.assignment.split
         /\ t \in DOMAIN prev.split
         /\ \A n \in DOMAIN prev.split \ {t} : prev.split[n] = config.assignment.split[n]
         /\ config.assignment.split[t] >= prev.split[t])
        => /\ ~nuke
           /\ CallsFor(calls, t) =
                 Positions(Ordering(config, t),
                           Round(config.shard_count, prev.split[t]),
                           Round(config.shard_count, config.assignment.split[t]))
(***************************************************************************)
(* C7: after a successful build that starts from no lockfile, under the    *)
(* Random strategy, each treatment T with split p has been applied exactly *)
(* once to every shard id that is among the first round(shard_count*p/100) *)
(* positions of T's ordering over [0, shard_count) and inside [min, max),  *)
(* and to no other shard; with the full window exactly                     *)
(* round(shard_count*p/100) distinct shards received T.                    *)
(***************************************************************************)
Due(cfg, t, i) ==
    /\ t \in DOMAIN cfg.assignment.split
    /\ \E k \in 1..Len(Positions(Ordering(cfg, t), 0,
                                 Round(cfg.shard_count, cfg.assignment.split[t]))) :
          Ordering(cfg, t)[k] = i
    /\ cfg.minmax[1] <= i
    /\ i < cfg.minmax[2]

Extends(before, after) ==
    \A n \in DOMAIN before : n \in DOMAIN after /\ IsPrefix(before[n], after[n])

C8_AppliedOnlyGrows ==
    [][ /\ (lockfileDisk.kind = "valid" /\ lockfileDisk'.kind = "valid")
            => Extends(lockfileDisk.doc.applied, lockfileDisk'.doc.applied)
        /\ (pc = "write" /\ ~nuke /\ result' = "Ok")
            => (lockfileDisk.kind = "valid" /\ lockfileDisk'.kind = "valid")
        /\ (lockfileDisk.kind = "valid" /\ lockfileDisk'.kind = "missing")
            => (nuke /\ pc = "remove_dir") ]_vars

\* a non-nuking build has applied a treatment to further shards and persisted the longer list
C8_Witness ==
    /\ Succeeded /\ ~nuke /\ lockAtStart = "compatible"
    /\ calls # <<>>
    /\ \E n \in DOMAIN lockfileDisk.doc.applied : Len(lockfileDisk.doc.applied[n]) >= 2

(***************************************************************************)
(* C9: when lockfile.toml does not exist, cannot be parsed or is           *)
(* incompatible with the desired lockfile, build does not fail for that    *)
(* reason: it sets nuke, deletes the whole build directory, re-clones      *)
(* control and proceeds with a full build (empty applied map).             *)
(***************************************************************************)
C9_UnusableLockfileNukes ==
    (pc # "idle" /\ lockAtStart # "compatible") =>
        /\ nuke
        /\ lockfile.applied = EmptyMap \/ pc \in {"treatment", "apply", "build_hook", "template",
                                                   "symlink", "write", "returned"}
        /\ Failed => failedAt \in {"remove_dir", "clone", "control_build", "shard_copy",
                                   "shard_open", "apply_treatment", "build_hook", "template",
                                   "symlink", "write_lockfile"}
        /\ pc = "clone" => (lockfileDisk = Missing /\ ~controlDir
                            /\ \A i \in ShardIds : ~shardDirs[i].exists)
        /\ pc \in {"control_build", "populate", "treatment", "apply", "build_hook", "template",
                   "symlink", "write"}
              => (controlDir /\ lockfileDisk = Missing
                  /\ \A i \in ShardIds : shardDirs[i].exists => i \in storage)

\* a build that found an unparseable lockfile went through the nuke and returned Ok
C9_Witness ==
    /\ Succeeded /\ lockAtStart = "corrupt" /\ nuke
    /\ lockfileDisk.kind = "valid"

(***************************************************************************)
(* C10: if the control-build hook or the build hook of a shard exits with  *)
(* a non-zero status, the invocation returns an error and runs no later    *)
(* step (so it does not reach the lockfile write).                         *)
(***************************************************************************)
C10_NonZeroHookAborts ==
    hookStatus > 0 => Failed

(***************************************************************************)
(* C13: for every seed, treatment name and n, shuffled_shards(seed, name,  *)
(* 0, n) contains every integer of [0, n) exactly once, and two calls with *)
(* the same arguments return the same list.                                *)
(***************************************************************************)
IsPermutationOfRange(s, n) ==
    /\ Len(s) = n
    /\ \A x \in 0..(n - 1) : Occurrences(s, x) = 1

C14_CountIsNearestHalfUp ==
    (args # <<>> /\ rets # <<>>) =>
        LET n == args[1]
            p == args[2]
            c == rets[1]
        IN /\ 200 * c - 100 <= 2 * n * p
           /\ 2 * n * p < 200 * c + 100
           /\ p = 0 => c = 0
           /\ p = 100 => c = n

(***************************************************************************)
(* C15: if apply_treatment fails for some (treatment, shard) pair, the     *)
(* invocation returns that error immediately: no further treatment is      *)
(* applied to any shard, no build hook, templating or symlink step runs,   *)
(* and the lockfile is not written in that invocation.                     *)
(***************************************************************************)
C15_ApplyFailureAborts ==
    [][ /\ (failedAt # "apply_treatment" /\ failedAt' = "apply_treatment")
            => /\ pc = "apply" /\ pc' = "returned" /\ result' = "Err"
               /\ disk' = disk
               /\ hooked = <<>> /\ hooked' = <<>>
        /\ (failedAt = "apply_treatment" /\ pc # "idle")
            => /\ pc = "returned" /\ pc' = "idle" /\ result' = "Err"
               /\ disk' = disk
               /\ hooked = <<>> ]_vars

\* apply_treatment failed after an earlier application of the same invocation, with a
\* build hook configured and a lockfile on disk
C15_Witness ==
    /\ Failed /\ failedAt = "apply_treatment"
    /\ Len(calls) >= 2
    /\ config.hooks.build
    /\ lockfileDisk.kind = "valid"

(***************************************************************************)
(* C16: for every shard, the treatments applied to it since it was created *)
(* from control, possibly over several compatible builds, were applied in  *)
(* configuration order: if A is configured before B and both were applied  *)
(* to the shard, A was applied before B.                                   *)
(***************************************************************************)
ConfiguredAt(name) == CHOOSE k \in 1..Len(Treatments) : Treatments[k] = name

C16_AppliedInConfigurationOrder ==
    \A i \in ShardIds :
        \A a, b \in 1..Len(shardDirs[i].log) :
            (a < b) => ConfiguredAt(shardDirs[i].log[a]) <= ConfiguredAt(shardDirs[i].log[b])

(***************************************************************************)
(* C17: at every moment every shard id in an applied list of the           *)
(* in-progress or the persisted lockfile lies in [min, max); ids outside   *)
(* the window are skipped without a call of apply_treatment and without    *)
(* being appended to applied.                                              *)
(***************************************************************************)
InWindow(minmax, ids) == \A k \in 1..Len(ids) : minmax[1] <= ids[k] /\ ids[k] < minmax[2]

C17_AppliedIdsInWindow ==
    /\ \A n \in DOMAIN lockfile.applied : InWindow(lockfile.minmax, lockfile.applied[n])
    /\ lockfileDisk.kind = "valid" =>
          \A n \in DOMAIN lockfileDisk.doc.applied :
              InWindow(lockfileDisk.doc.minmax, lockfileDisk.doc.applied[n])
    /\ pc # "idle" => \A k \in 1..Len(calls) :
                          config.minmax[1] <= calls[k][2] /\ calls[k][2] < config.minmax[2]

\* treatment A is finished for a window that excludes an id of A's selection: the id was
\* passed over and the applied list is shorter than the selection
C17_Witness ==
    /\ pc = "apply" /\ iter = <<>> /\ Treatments[tIdx] = "A"
    /\ IsRandom(config) /\ ~FullWindow(config)
    /\ lockAtStart = "missing"
    /\ lockfile.applied["A"] # <<>>
    /\ Len(lockfile.applied["A"]) < count(config.shard_count, config.assignment.split["A"])

(***************************************************************************)
(* C18: in every successful build with a build hook configured, the hook   *)
(* runs exactly once for each shard id of [min, max), in ascending order,  *)
(* only after all treatment applications of that build, and before the     *)
(* lockfile is written.                                                    *)
(***************************************************************************)
C18_BuildHookOncePerShard ==
    [][ /\ (hooked' # hooked /\ hooked' # <<>>)
            => /\ pc = "build_hook"
               /\ hooked' = Append(hooked, shardIdx)
               /\ hooked' = range(config.minmax[1], shardIdx + 1)
               /\ lockfileDisk' = lockfileDisk
        /\ (calls' # calls /\ calls' # <<>>) => hooked = <<>>
        /\ (pc = "write" /\ config.hooks.build)
            => hooked = range(config.minmax[1], config.minmax[2])
        /\ (pc' = "returned" /\ result' = "Ok" /\ config.hooks.build)
            => hooked' = range(config.minmax[1], config.minmax[2]) ]_vars

\* an incremental build that applied a treatment has run the hook for every shard of a
\* strict sub-range and returned Ok
C18_Witness ==
    /\ Succeeded /\ config.hooks.build /\ ~nuke
    /\ calls # <<>>
    /\ ~FullWindow(config)
    /\ hooked = range(config.minmax[1], config.minmax[2])

(***************************************************************************)
(* C19: populate_shard_repos copies the control working copy into a shard  *)
(* directory only when that directory does not exist; a shard directory    *)
(* that exists is left unchanged by this step, so the treatments applied   *)
(* to it by earlier builds remain in place.                                *)
(***************************************************************************)
C19_PopulateKeepsExistingShards ==
    [][ pc = "populate" =>
          \A i \in ShardIds :
              /\ shardDirs[i].exists => shardDirs'[i] = shardDirs[i]
              /\ shardDirs'[i] # shardDirs[i] => shardDirs'[i] \in {Fresh, Partial} ]_vars

\* populate_shard_repos of a non-nuking build has gone over shards that carry treatments
\* of an earlier build
C19_Witness ==
    /\ pc = "treatment" /\ tIdx = 1 /\ ~nuke
    /\ calls = <<>>
    /\ \A i \in storage : shardDirs[i].log # <<>>
    /\ storage # {}

(***************************************************************************)
(* C11: once the termination-signal handler has set the cancellation flag, *)
(* the poll loop eventually observes it and a kill is issued to every      *)
(* spawned child; run then returns Ok when every kill succeeds (a kill     *)
(* that fails ends the supervisor instead).                                *)
(***************************************************************************)
C11_CancellationKillsAndReturns ==
    (handler /\ ~running) ~>
        \/ /\ pc = "returned" /\ result = "Ok"
           /\ \A k \in 1..Len(children) : children[k].kills = 1 /\ children[k].killed
        \/ /\ pc = "panicked"
           /\ \E k \in 1..Len(children) : children[k].kills = 1 /\ ~children[k].killed

\* after a signal the supervisor has killed the children of a full window and returned Ok
C11_Witness ==
    /\ pc = "returned" /\ result = "Ok"
    /\ handler /\ ~running
    /\ Len(children) = MaxShards
    /\ \A k \in 1..Len(children) : children[k].killed

(***************************************************************************)
(* C12: with a run hook configured and no spawn failing, run spawns        *)
(* exactly max - min children, one per shard id of [min, max) in ascending *)
(* order, each in its shard's directory, the child of shard k+1 only after *)
(* the child of shard k was spawned and the inter-spawn delay has elapsed; *)
(* no child is waited on before cancellation.                              *)
(***************************************************************************)
SpawnLoopCompleted ==
    \/ pc \in {"install", "poll", "poll_sleep", "kill", "panicked"}
    \/ pc = "returned" /\ result = "Ok"

C12_StaggeredSpawnPerShard ==
    /\ \A k \in 1..Len(children) :
          /\ children[k].shard = config.minmax[1] + k - 1
          /\ children[k].cwd = get_shard_dir(children[k].shard)
          /\ k > 1 => children[k].at >= children[k - 1].at + SpawnDelay
          /\ ~children[k].waited
    /\ SpawnLoopCompleted => Len(children) = config.minmax[2] - config.minmax[1]

\* the spawn loop has completed for a full window
C12_Witness ==
    /\ pc = "poll" /\ running
    /\ Len(children) = MaxShards
    /\ children[MaxShards].at >= 2 * SpawnDelay

(***************************************************************************)
(* C20: if killing some child fails during cancellation, the supervisor    *)
(* aborts at that child without retrying it and does not return Ok;        *)
(* children later in spawn order receive no kill.                          *)
(***************************************************************************)
C20_KillFailureAborts ==
    \A k \in 1..Len(children) :
        /\ children[k].kills <= 1
        /\ (children[k].kills = 1 /\ ~children[k].killed)
              => /\ pc = "panicked"
                 /\ result # "Ok"
                 /\ \A j \in (k + 1)..Len(children) : children[j].kills = 0

\* the kill of a child failed after an earlier child was killed and before a later one
C20_Witness ==
    /\ pc = "panicked"
    /\ Len(children) >= 3
    /\ children[1].killed
    /\ children[2].kills = 1 /\ ~children[2].killed
    /\ children[3].kills = 0

(***************************************************************************)
(* C21: after every successful build the persisted lockfile is consistent  *)
(* with the shard working copies: for every treatment name T and every     *)
(* shard id s in the persisted applied[T], T has been applied to shard s   *)
(* since its working copy was last created from control.                   *)
(***************************************************************************)
C21_LockfileMatchesShards ==
    Succeeded =>
        /\ lockfileDisk.kind = "valid"
        /\ \A t \in DOMAIN lockfileDisk.doc.applied :
              \A k \in 1..Len(lockfileDisk.doc.applied[t]) :
                  LET s == lockfileDisk.doc.applied[t][k]
                  IN shardDirs[s].exists /\ Occurrences(shardDirs[s].log, t) >= 1

(***************************************************************************)
(* C22: a termination signal delivered at any time after the first child   *)
(* was spawned, the staggered startup included, sets the cancellation flag *)
(* and leads to every spawned child being killed by the supervisor: there  *)
(* is no interval in which a child is running and the signal handler is    *)
(* not yet installed.                                                      *)
(***************************************************************************)
C22_SignalAlwaysHandled ==
    /\ \A k \in 1..Len(children) : (InRun /\ children[k].alive) => handler
    /\ (signals > 0 /\ children # <<>> /\ ~InRun) =>
          \A k \in 1..Len(children) : children[k].kills = 1

(***************************************************************************)
(* C23: if spawning the run hook fails for some shard k of [min, max), run *)
(* returns an error without spawning the remaining shards, and every child *)
(* spawned for the shards before k has been terminated by the time run     *)
(* returns: no child is left running after the supervisor has exited.      *)
(***************************************************************************)
C23_SpawnFailureKillsEarlierChildren ==
    (pc = "returned" /\ failedAt = "spawn") =>
        /\ result = "Err"
        /\ Len(children) = shardIdx - config.minmax[1]
        /\ \A k \in 1..Len(children) : ~children[k].alive
====
